---- MODULE Spec2Model ----
(***************************************************************************)
(* recover_projects.py: scan the _projects folder, infer projects,         *)
(* departments and employees from the employee sheets, and merge them into *)
(* company.json.                                                           *)
(*                                                                         *)
(* A JSON object (Python dict) is a TLA+ record whose DOMAIN is the set of *)
(* keys it has, so a missing key is a missing field; a JSON array is a     *)
(* sequence.  A string the script takes apart or puts together (a folder   *)
(* name, a department label, an employee number) is a sequence of its      *)
(* pieces; a string it only copies and compares is a TLA+ string.          *)
(* The Korean literals of the script are written in ASCII:                 *)
(*   the department codes  "planning" "design" "dev" "QA" "marketing",     *)
(*   the suffix "Team", the states "planning" and "resting", the cue       *)
(*   word "glasses".                                                        *)
(***************************************************************************)
EXTENDS Integers, Sequences, FiniteSets, TLC

(* ---------------------------- bounds ----------------------------------- *)

\* entries of the _projects folder
MaxFolders == 2
\* employee sheets in one people folder
MaxFiles == 2
\* projects in company.json before the first run
MaxStoreProjects == 2
\* employees of one department of company.json before the first run
MaxStoreEmployees == 1
\* runs of main, one after the other, on the same _projects folder
MaxRuns == 2

(* ---------------------------- helpers ---------------------------------- *)

Has(d, k) == k \in DOMAIN d

\* dict.get(k, default)
Get(d, k, default) == IF k \in DOMAIN d THEN d[k] ELSE default

Max(S) == CHOOSE m \in S : \A n \in S : n <= m

\* the sequences over S of length at most n without a repeated element
RECURSIVE DistinctSeqs(_, _)
DistinctSeqs(S, n) ==
    IF n = 0 THEN {<<>>}
    ELSE LET shorter == DistinctSeqs(S, n - 1)
         IN  shorter \cup
             UNION {{Append(s, x) : x \in S \ {s[i] : i \in 1..Len(s)}} :
                        s \in {t \in shorter : Len(t) = n - 1}}

\* the sequences over S of length at most n
RECURSIVE SeqsUpTo(_, _)
SeqsUpTo(S, n) ==
    IF n = 0 THEN {<<>>}
    ELSE LET shorter == SeqsUpTo(S, n - 1)
         IN  shorter \cup
             {Append(s, x) : s \in {t \in shorter : Len(t) = n - 1}, x \in S}

\* s with x put in at position p
Insert(s, p, x) == SubSeq(s, 1, p - 1) \o <<x>> \o SubSeq(s, p, Len(s))

\* the sequences of length at most n of which all elements but at most one
\* are in Core, and that one is in All
AllButOne(Core, All, n) ==
    IF n = 0 THEN {<<>>}
    ELSE SeqsUpTo(Core, n) \cup
         UNION {{Insert(s, p, x) : p \in 1..(Len(s) + 1), x \in All} :
                    s \in SeqsUpTo(Core, n - 1)}

(* ------------------------ parse_employee_file -------------------------- *)

DEPT_MAPPING == {<<"planning">>, <<"design">>, <<"dev">>, <<"QA">>, <<"marketing">>}

\* dept.replace("Team", ""): a department label is a sequence of tokens
StripTeam(label) == SelectSeq(label, LAMBDA t : t # "Team")

\* file: [stem, readable, content]; content holds the fields the regular
\* expressions find, a field the sheet does not have is absent
parse_employee_file(file) ==
    LET content == file.content
    IN  [name |-> IF Has(content, "heading") THEN content.heading ELSE file.stem,
         aiType |-> Get(content, "ai_type", "Claude"),
         department |-> StripTeam(Get(content, "department", <<"planning", "Team">>)),
         joinDate |-> Get(content, "join_date", "None"),
         conversationCount |-> Get(content, "conversation_count", 0),
         appearance |-> [skinTone |-> 0, hairStyle |-> 0, hairColor |-> 0,
                         shirtColor |-> 0,
                         accessory |-> IF Get(content, "appearance", "") = "glasses"
                                       THEN 1 ELSE 0],
         conversationHistory |-> <<>>]

(* ------------------------ scan_projects_folder ------------------------- *)

\* project_name.replace("-", " ")
DisplayName(project_name) ==
    [i \in 1..Len(project_name) |->
        IF project_name[i] = "-" THEN " " ELSE project_name[i]]

\* name.startswith(c)
StartsWith(name, c) == Len(name) > 0 /\ name[1] = c

\* the department folders of a project folder whose sheets are read
ScannedDept(dept_dir) ==
    /\ dept_dir.is_dir
    /\ ~StartsWith(dept_dir.name, "_")
    /\ dept_dir.name \in DEPT_MAPPING
    /\ Has(dept_dir, "people")

\* the employees of one department folder, in the order glob lists the sheets
RECURSIVE DeptEmployees(_, _, _)
DeptEmployees(dept_dir, display_name, i) ==
    IF i = 0 THEN <<>>
    ELSE LET emp_info == parse_employee_file(dept_dir.people[i])
         IN  Append(DeptEmployees(dept_dir, display_name, i - 1),
                    [emp_info EXCEPT !.department = dept_dir.name]
                        @@ [projectName |-> display_name])

\* the employees of one project folder, department folder by department folder
RECURSIVE ProjectEmployees(_, _)
ProjectEmployees(project_dir, i) ==
    IF i = 0 THEN <<>>
    ELSE LET dept_dir == project_dir.children[i]
             before == ProjectEmployees(project_dir, i - 1)
         IN  IF ScannedDept(dept_dir)
             THEN before \o DeptEmployees(dept_dir, DisplayName(project_dir.name),
                                          Len(dept_dir.people))
             ELSE before

\* a sheet of a scanned department folder cannot be opened or decoded
Unreadable(project_dir) ==
    \E i \in 1..Len(project_dir.children) :
        /\ ScannedDept(project_dir.children[i])
        /\ \E j \in 1..Len(project_dir.children[i].people) :
               ~project_dir.children[i].people[j].readable

ScannedProject(project_dir) ==
    project_dir.is_dir /\ ~StartsWith(project_dir.name, ".")

\* a scan that keeps every project folder
KeepProject_Always(employees) == TRUE

\* line 111: whether the project folder is kept in the mapping
KeepProject(employees) == Len(employees) > 0

\* the mapping built from the first i entries of the _projects folder, as the
\* sequence of its items in insertion order
RECURSIVE scan_projects_folder(_, _)
scan_projects_folder(listing, i) ==
    IF i = 0 THEN <<>>
    ELSE LET project_dir == listing[i]
             before == scan_projects_folder(listing, i - 1)
         IN  IF ~ScannedProject(project_dir) THEN before
             ELSE LET employees == ProjectEmployees(project_dir,
                                                    Len(project_dir.children))
                  IN  IF KeepProject(employees)
                      THEN Append(before,
                                  [key |-> project_dir.name,
                                   name |-> DisplayName(project_dir.name),
                                   departments |-> <<>>,
                                   employees |-> employees])
                      ELSE before

\* parse_employee_file raises while the folder is scanned
ScanRaises(listing) ==
    \E i \in 1..Len(listing) :
        ScannedProject(listing[i]) /\ Unreadable(listing[i])

(* ------------------------ update_company_json -------------------------- *)

\* the decimal digits of n, most significant first
RECURSIVE Digits(_)
Digits(n) == IF n < 10 THEN <<n>> ELSE Append(Digits(n \div 10), n % 10)

\* f"{n:04d}": at least four digits, padded with zeros on the left
RECURSIVE ZeroPad(_, _)
ZeroPad(digits, width) ==
    IF Len(digits) >= width THEN digits ELSE ZeroPad(<<0>> \o digits, width)

\* f"EMP-{n:04d}"
EmployeeNumber(n) == <<"E", "M", "P", "-">> \o ZeroPad(Digits(n), 4)

\* str(uuid.uuid4()).upper(): the n-th token the runs generate; the tokens
\* already in the store are <<0, ...>>, so a generated one is new
Uuid(n) == <<1, n>>

NewProject(id, display_name, now) ==
    [id |-> id, name |-> display_name, description |-> "", status |-> "planning",
     createdAt |-> now, updatedAt |-> now, departments |-> <<>>, tasks |-> <<>>]

NewDepartment(id, dept_name) ==
    [id |-> id, type |-> dept_name, name |-> dept_name \o <<"Team">>,
     employees |-> <<>>, maxCapacity |-> 4, position |-> [row |-> 0, column |-> 0]]

\* count is len(dept['employees']) when the employee is built
NewEmployee(id, emp_info, count, now) ==
    [id |-> id, employeeNumber |-> EmployeeNumber(count), name |-> emp_info.name,
     aiType |-> emp_info.aiType, status |-> "resting", currentTaskId |-> "None",
     conversationHistory |-> emp_info.conversationHistory, createdAt |-> now,
     totalTasksCompleted |-> 0, characterAppearance |-> emp_info.appearance]

\* {p["name"]: p for p in projects}: a later project replaces an earlier one
\* of the same name; the value is the position of the project in the list,
\* which stands for the reference to it
existing_projects_of(projects) ==
    [n \in {projects[i].name : i \in 1..Len(projects)} |->
        Max({i \in 1..Len(projects) : projects[i].name = n})]

\* an index of the departments by their display name
existing_depts_by_name(departments) ==
    [t \in {departments[i].name : i \in 1..Len(departments)} |->
        Max({i \in 1..Len(departments) : departments[i].name = t})]

\* {d["type"]: d for d in departments}
existing_depts_of(departments) ==
    [t \in {departments[i].type : i \in 1..Len(departments)} |->
        Max({i \in 1..Len(departments) : departments[i].type = t})]

\* {e["name"] for e in employees}
existing_emp_names_of(employees) == {employees[i].name : i \in 1..Len(employees)}

\* the keys of dept_employees in insertion order: the department codes of
\* the first i scanned employees, each at its first appearance
RECURSIVE DeptOrder(_, _)
DeptOrder(employees, i) ==
    IF i = 0 THEN <<>>
    ELSE LET before == DeptOrder(employees, i - 1)
         IN  IF \E j \in 1..Len(before) : before[j] = employees[i].department
             THEN before
             ELSE Append(before, employees[i].department)

\* a grouping that keeps the last employee of each department only
DeptGroup_Last(employees, dept_name) ==
    LET group == SelectSeq(employees, LAMBDA emp : emp.department = dept_name)
    IN  IF group = <<>> THEN <<>> ELSE <<group[Len(group)]>>

\* dept_employees[dept_name]
DeptGroup(employees, dept_name) ==
    SelectSeq(employees, LAMBDA emp : emp.department = dept_name)

\* A merge in progress: [ok, data, ids].  data is company_data, ids the
\* number of tokens generated so far; ok turns FALSE when a lookup raises
\* KeyError, and the steps after it are not taken.
Raise(st) == [st EXCEPT !.ok = FALSE]

\* a merge that updates the stored employee of the scanned name
MergeEmployee_Overwrite(st, pi, di, emp_info, existing_emp_names, now) ==
    LET dept == st.data.projects[pi].departments[di]
    IN  IF emp_info.name \in existing_emp_names
        THEN [st EXCEPT
                !.data.projects[pi].departments[di].employees =
                    [k \in 1..Len(@) |->
                        IF @[k].name = emp_info.name
                        THEN [@[k] EXCEPT !.aiType = emp_info.aiType]
                        ELSE @[k]]]
        ELSE IF ~Has(dept, "employees") THEN Raise(st)
        ELSE [st EXCEPT
                !.data.projects[pi].departments[di].employees =
                    Append(@, NewEmployee(Uuid(st.ids + 1), emp_info,
                                          Len(dept.employees), now)),
                !.ids = @ + 1]

\* a merge that numbers the employee by the number of names the department
\* had before the group was merged
MergeEmployee_StaleCount(st, pi, di, emp_info, existing_emp_names, now) ==
    LET dept == st.data.projects[pi].departments[di]
    IN  IF emp_info.name \in existing_emp_names THEN st
        ELSE IF ~Has(dept, "employees") THEN Raise(st)
        ELSE [st EXCEPT
                !.data.projects[pi].departments[di].employees =
                    Append(@, NewEmployee(Uuid(st.ids + 1), emp_info,
                                          Cardinality(existing_emp_names), now)),
                !.ids = @ + 1]

\* lines 178-194 for one scanned employee of the group; the department is
\* data["projects"][pi]["departments"][di]
MergeEmployee(st, pi, di, emp_info, existing_emp_names, now) ==
    LET dept == st.data.projects[pi].departments[di]
    IN  IF emp_info.name \in existing_emp_names THEN st
        ELSE IF ~Has(dept, "employees") THEN Raise(st)
        ELSE [st EXCEPT
                !.data.projects[pi].departments[di].employees =
                    Append(@, NewEmployee(Uuid(st.ids + 1), emp_info,
                                          Len(dept.employees), now)),
                !.ids = @ + 1]

RECURSIVE MergeEmployees(_, _, _, _, _, _, _)
MergeEmployees(st, pi, di, employees, existing_emp_names, k, now) ==
    IF k = 0 THEN st
    ELSE LET before == MergeEmployees(st, pi, di, employees,
                                      existing_emp_names, k - 1, now)
         IN  IF ~before.ok THEN before
             ELSE MergeEmployee(before, pi, di, employees[k],
                                existing_emp_names, now)

\* line 176: the names in the department before the group is merged
NamesInDept(dept) == existing_emp_names_of(Get(dept, "employees", <<>>))

\* lines 160-194 for one department code of the scanned project
MergeDept(st, pi, dept_name, employees, existing_depts, now) ==
    LET project == st.data.projects[pi]
        found == dept_name \in DOMAIN existing_depts
        di == IF found THEN existing_depts[dept_name]
              ELSE Len(Get(project, "departments", <<>>)) + 1
        st1 == IF found THEN st
               ELSE IF ~Has(project, "departments") THEN Raise(st)
               ELSE [st EXCEPT
                       !.data.projects[pi].departments =
                           Append(@, NewDepartment(Uuid(st.ids + 1), dept_name)),
                       !.ids = @ + 1]
    IN  IF ~st1.ok THEN st1
        ELSE LET dept == st1.data.projects[pi].departments[di]
                 stored == Get(dept, "employees", <<>>)
             IN  IF \E k \in 1..Len(stored) : ~Has(stored[k], "name")
                 THEN Raise(st1)
                 ELSE MergeEmployees(st1, pi, di, employees, NamesInDept(dept),
                                     Len(employees), now)

RECURSIVE MergeDepts(_, _, _, _, _, _, _)
MergeDepts(st, pi, order, employees, existing_depts, k, now) ==
    IF k = 0 THEN st
    ELSE LET before == MergeDepts(st, pi, order, employees, existing_depts,
                                  k - 1, now)
         IN  IF ~before.ok THEN before
             ELSE MergeDept(before, pi, order[k], DeptGroup(employees, order[k]),
                            existing_depts, now)

\* lines 127-194: one turn of the loop over projects_info.items()
MergeProject(data, existing_projects, ids, project_info, now) ==
    LET display_name == project_info.name
        found == display_name \in DOMAIN existing_projects
        st0 == [ok |-> TRUE, data |-> data, ids |-> ids]
        pi == IF found THEN existing_projects[display_name]
              ELSE Len(Get(data, "projects", <<>>)) + 1
        st1 == IF found THEN st0
               ELSE IF ~Has(data, "projects") THEN Raise(st0)
               ELSE [st0 EXCEPT
                       !.data.projects =
                           Append(@, NewProject(Uuid(ids + 1), display_name, now)),
                       !.ids = @ + 1]
    IN  IF ~st1.ok THEN st1
        ELSE LET departments == Get(st1.data.projects[pi], "departments", <<>>)
                 order == DeptOrder(project_info.employees,
                                    Len(project_info.employees))
             IN  IF \E k \in 1..Len(departments) : ~Has(departments[k], "type")
                 THEN Raise(st1)
                 ELSE MergeDepts(st1, pi, order, project_info.employees,
                                 existing_depts_of(departments), Len(order), now)

(* ------------------------ the _projects folder ------------------------- *)

\* a sheet with every field, one with none (the name falls back to the file
\* stem, which is the name of the first) and one of another employee; and a
\* sheet that cannot be read
SheetAria ==
    [stem |-> "sheet1", readable |-> TRUE,
     content |-> [heading |-> "Aria", ai_type |-> "GPT",
                  department |-> <<"dev", "Team">>, join_date |-> "2024-01-01",
                  conversation_count |-> 12, appearance |-> "glasses"]]
SheetStem ==
    [stem |-> "Aria", readable |-> TRUE, content |-> [appearance |-> "plain"]]
SheetBob ==
    [stem |-> "sheet3", readable |-> TRUE, content |-> [heading |-> "Bob"]]
SheetBroken ==
    [stem |-> "sheet4", readable |-> FALSE, content |-> [appearance |-> "plain"]]

Sheets == {SheetAria, SheetStem, SheetBob}

\* what glob("*.md") may list in a people folder
PeopleListings == DistinctSeqs(Sheets, MaxFiles)

DevDir(people) == [name |-> <<"dev">>, is_dir |-> TRUE, people |-> people]

DevDirs == {DevDir(p) : p \in PeopleListings}

QABob == [name |-> <<"QA">>, is_dir |-> TRUE, people |-> <<SheetBob>>]

DevBroken == DevDir(<<SheetAria, SheetBroken>>)

\* entries of a project folder that yield no employee: a department folder
\* without sheets, one without a people folder, a folder that is no
\* department code, one whose name starts with "_", and a plain file
OtherDirs ==
    {[name |-> <<"QA">>, is_dir |-> TRUE, people |-> <<>>],
     [name |-> <<"QA">>, is_dir |-> TRUE],
     [name |-> <<"HR">>, is_dir |-> TRUE, people |-> <<SheetBob>>],
     [name |-> <<"_", "dev">>, is_dir |-> TRUE, people |-> <<SheetBob>>],
     [name |-> <<"design">>, is_dir |-> FALSE]}

\* what iterdir() may list in a project folder
ChildListings ==
    {<<>>} \cup {<<d>> : d \in DevDirs \cup OtherDirs \cup {QABob, DevBroken}}
           \cup {<<d, QABob>> : d \in DevDirs} \cup {<<QABob, d>> : d \in DevDirs}

\* two folder names with the same display name, and another
FolderNames == {<<"a", "-", "b">>, <<"a", " ", "b">>, <<"c">>}

RootEntries ==
    {[name |-> n, is_dir |-> TRUE, children |-> c] :
        n \in FolderNames, c \in ChildListings}
    \cup {[name |-> <<".", "git">>, is_dir |-> TRUE,
           children |-> <<[name |-> <<"dev">>, is_dir |-> TRUE,
                           people |-> <<SheetBob>>]>>],
          [name |-> <<"README">>, is_dir |-> FALSE]}

DistinctNames(listing) ==
    \A i, j \in 1..Len(listing) : listing[i].name = listing[j].name => i = j

\* three ordinary project folders
CoreEntries ==
    {[name |-> <<"a", "-", "b">>, is_dir |-> TRUE,
      children |-> <<DevDir(<<SheetAria>>)>>],
     [name |-> <<"a", " ", "b">>, is_dir |-> TRUE,
      children |-> <<DevDir(<<SheetBob>>)>>],
     [name |-> <<"c">>, is_dir |-> TRUE,
      children |-> <<DevDir(<<SheetAria, SheetBob>>), QABob>>]}

\* what iterdir() may list in the _projects folder: ordinary project
\* folders and at most one entry of any kind, no name twice
Listings ==
    {l \in AllButOne(CoreEntries, RootEntries, MaxFolders) : DistinctNames(l)}

(* ------------------------------ company.json --------------------------- *)

\* r without the key k
Without(r, k) == [f \in DOMAIN r \ {k} |-> r[f]]

\* an employee the application stored, the k-th of department di of project pi
StoredEmployee(pi, di, k, name) ==
    LET e == [id |-> <<0, pi, di, k>>, employeeNumber |-> EmployeeNumber(k - 1),
              name |-> name, aiType |-> "Gemini", status |-> "working",
              currentTaskId |-> "task", conversationHistory |-> <<"hello">>,
              createdAt |-> 0, totalTasksCompleted |-> 3,
              characterAppearance |-> [skinTone |-> 2, hairStyle |-> 2,
                                       hairColor |-> 2, shirtColor |-> 2,
                                       accessory |-> 0]]
    IN  IF name = "?" THEN Without(e, "name") ELSE e

StoredDepartment(pi, di, shape) ==
    LET d == [id |-> <<0, pi, di>>, type |-> shape.type,
              name |-> shape.type \o <<"Team">>,
              employees |-> [k \in 1..Len(shape.employees) |->
                                StoredEmployee(pi, di, k, shape.employees[k])],
              maxCapacity |-> 6, position |-> [row |-> 1, column |-> 2]]
    IN  Without(d, shape.missing)

StoredProject(pi, shape) ==
    LET p == [id |-> <<0, pi>>, name |-> shape.name, description |-> "described",
              status |-> "running", createdAt |-> 0, updatedAt |-> 0,
              departments |-> [di \in 1..Len(shape.departments) |->
                                  StoredDepartment(pi, di, shape.departments[di])],
              tasks |-> <<"task">>]
    IN  Without(p, shape.missing)

\* the names of the employees of a stored department; "?" is an employee
\* record without a name
EmployeeShapes == SeqsUpTo({"Aria", "Cleo", "?"}, MaxStoreEmployees)

DeptShapes ==
    {[type |-> <<"dev">>, employees |-> e, missing |-> "none"] : e \in EmployeeShapes}
    \cup {[type |-> <<"QA">>, employees |-> <<>>, missing |-> m] :
             m \in {"none", "type", "employees"}}

DeptListShapes ==
    SeqsUpTo(DeptShapes, 1)
    \cup {<<d, [type |-> <<"dev">>, employees |-> <<>>, missing |-> "none"]>> :
             d \in DeptShapes}

ProjectShapes ==
    {[name |-> <<"a", " ", "b">>, departments |-> d, missing |-> "none"] :
        d \in DeptListShapes}
    \cup {[name |-> <<"c">>, departments |-> <<>>, missing |-> m] :
             m \in {"none", "name", "departments"}}
    \cup {[name |-> <<"a", " ", "b">>, departments |-> <<>>, missing |-> "departments"]}

\* two ordinary projects
CoreProjectShapes ==
    {[name |-> <<"a", " ", "b">>,
      departments |-> <<[type |-> <<"dev">>, employees |-> <<"Cleo">>,
                         missing |-> "none"]>>,
      missing |-> "none"],
     [name |-> <<"c">>, departments |-> <<>>, missing |-> "none"]}

Document(shapes) ==
    [company |-> "PixelOffice",
     projects |-> [pi \in 1..Len(shapes) |-> StoredProject(pi, shapes[pi])]]

\* company.json: no file, a file that is not JSON, a document without
\* "projects", or a document with projects
Disks ==
    {[state |-> "missing"], [state |-> "garbage"],
     [state |-> "json", data |-> [company |-> "PixelOffice"]]}
    \cup {[state |-> "json", data |-> Document(s)] :
             s \in AllButOne(CoreProjectShapes, ProjectShapes, MaxStoreProjects)}

(* ------------------------------ main ----------------------------------- *)

VARIABLES
    listing,            \* the _projects folder, as iterdir() lists it
    disk,               \* company.json
    pc,                 \* where main is: "scan", "load", "merge", "done", "aborted"
    err,                \* the exception that ended the run, or "none"
    run,                \* the number of the run; datetime.now() is that number
    projects_info,      \* scan_projects_folder's result
    company_data,       \* the loaded document
    existing_projects,  \* display name -> position in company_data["projects"]
    idx,                \* the next item of projects_info to merge
    ids,                \* the tokens uuid4 has generated
    disk0,              \* company.json when the run started
    writes,             \* how often the run has written company.json
    outcomes            \* how the runs before this one ended

vars == <<listing, disk, pc, err, run, projects_info, company_data,
          existing_projects, idx, ids, disk0, writes, outcomes>>

NotLoaded == [loaded |-> FALSE]

NoProjects == existing_projects_of(<<>>)

\* the folders every company.json is tried with: one project with two
\* departments, two folders of the same display name, two sheets of the
\* same name in one department, and a project folder without employees
CoreListings ==
    {<<[name |-> <<"a", "-", "b">>, is_dir |-> TRUE,
        children |-> <<DevDir(<<SheetAria, SheetBob>>), QABob>>]>>,
     <<[name |-> <<"a", "-", "b">>, is_dir |-> TRUE,
        children |-> <<DevDir(<<SheetAria>>)>>],
       [name |-> <<"a", " ", "b">>, is_dir |-> TRUE,
        children |-> <<DevDir(<<SheetBob>>)>>]>>,
     <<[name |-> <<"a", "-", "b">>, is_dir |-> TRUE,
        children |-> <<DevDir(<<SheetAria, SheetStem>>)>>]>>,
     <<[name |-> <<"a", "-", "b">>, is_dir |-> TRUE, children |-> <<>>]>>}

\* the company.json every folder is tried with: none, a document without
\* "projects", one without a project, one with an ordinary project, and one
\* with a project that has an employee of a scanned name
CoreDisks ==
    {[state |-> "missing"],
     [state |-> "json", data |-> [company |-> "PixelOffice"]],
     [state |-> "json", data |-> Document(<<>>)],
     [state |-> "json",
      data |-> Document(<<[name |-> <<"a", " ", "b">>,
                           departments |-> <<[type |-> <<"dev">>,
                                              employees |-> <<"Cleo">>,
                                              missing |-> "none"]>>,
                           missing |-> "none"]>>)],
     [state |-> "json",
      data |-> Document(<<[name |-> <<"a", " ", "b">>,
                           departments |-> <<[type |-> <<"dev">>,
                                              employees |-> <<"Aria">>,
                                              missing |-> "none"]>>,
                           missing |-> "none"]>>)]}

Init ==
    /\ \/ listing \in Listings /\ disk \in CoreDisks
       \/ listing \in CoreListings /\ disk \in Disks
    /\ pc = "scan"
    /\ err = "none"
    /\ run = 1
    /\ projects_info = <<>>
    /\ company_data = NotLoaded
    /\ existing_projects = NoProjects
    /\ idx = 0
    /\ ids = 0
    /\ disk0 = disk
    /\ writes = 0
    /\ outcomes = <<>>

\* line 215: projects_info = scan_projects_folder(projects_path)
Scan ==
    /\ pc = "scan"
    /\ IF ScanRaises(listing)
       THEN /\ pc' = "aborted"
            /\ err' = "OSError"
            /\ UNCHANGED projects_info
       ELSE /\ pc' = "load"
            /\ projects_info' = scan_projects_folder(listing, Len(listing))
            /\ UNCHANGED err
    /\ UNCHANGED <<listing, disk, run, company_data, existing_projects, idx, ids,
                   disk0, writes, outcomes>>

\* a project of the document has no "name": line 123 raises KeyError
NamelessProject(data) ==
    \E i \in 1..Len(Get(data, "projects", <<>>)) : ~Has(data.projects[i], "name")

\* lines 119-123: load company.json and index its projects by name
Load ==
    /\ pc = "load"
    /\ IF disk.state # "json"
       THEN /\ pc' = "aborted"
            /\ err' = IF disk.state = "missing" THEN "FileNotFoundError"
                      ELSE "JSONDecodeError"
            /\ UNCHANGED <<company_data, existing_projects, idx>>
       ELSE IF NamelessProject(disk.data)
       THEN /\ pc' = "aborted"
            /\ err' = "KeyError"
            /\ company_data' = disk.data
            /\ UNCHANGED <<existing_projects, idx>>
       ELSE /\ pc' = "merge"
            /\ company_data' = disk.data
            /\ existing_projects' =
                   existing_projects_of(Get(disk.data, "projects", <<>>))
            /\ idx' = 1
            /\ UNCHANGED err
    /\ UNCHANGED <<listing, disk, run, projects_info, ids, disk0, writes, outcomes>>

\* a loop that ends after its first turn
LoopDone_First(i, info) == i > Len(info) \/ i > 1

\* line 126: the loop over projects_info.items() has come to its end
LoopDone(i, info) == i > Len(info)

\* lines 126-194: merge the next scanned project
Merge ==
    /\ pc = "merge"
    /\ ~LoopDone(idx, projects_info)
    /\ LET st == MergeProject(company_data, existing_projects, ids,
                              projects_info[idx], run)
       IN  /\ company_data' = st.data
           /\ ids' = st.ids
           /\ IF st.ok
              THEN /\ idx' = idx + 1
                   /\ UNCHANGED <<pc, err>>
              ELSE /\ pc' = "aborted"
                   /\ err' = "KeyError"
                   /\ UNCHANGED idx
    /\ UNCHANGED <<listing, disk, run, projects_info, existing_projects, disk0,
                   writes, outcomes>>

\* lines 197-201: write the document back
Save ==
    /\ pc = "merge"
    /\ LoopDone(idx, projects_info)
    /\ disk' = [state |-> "json", data |-> company_data]
    /\ writes' = writes + 1
    /\ pc' = "done"
    /\ UNCHANGED <<listing, err, run, projects_info, company_data,
                   existing_projects, idx, ids, disk0, outcomes>>

\* the script is started again on the same _projects folder
Rerun ==
    /\ pc \in {"done", "aborted"}
    /\ run < MaxRuns
    /\ run' = run + 1
    /\ outcomes' = Append(outcomes, [pc |-> pc, before |-> disk0])
    /\ pc' = "scan"
    /\ err' = "none"
    /\ projects_info' = <<>>
    /\ company_data' = NotLoaded
    /\ existing_projects' = NoProjects
    /\ idx' = 0
    /\ disk0' = disk
    /\ writes' = 0
    /\ UNCHANGED <<listing, disk, ids>>

Next == Scan \/ Load \/ Merge \/ Save \/ Rerun

Spec == Init /\ [][Next]_vars

(* --------------------------- properties -------------------------------- *)

Projs(data) == Get(data, "projects", <<>>)
Depts(project) == Get(project, "departments", <<>>)
Emps(dept) == Get(dept, "employees", <<>>)

\* the document has the shape section 3 of the specification describes
WellFormed(data) ==
    /\ Has(data, "projects")
    /\ \A i \in 1..Len(data.projects) :
        LET p == data.projects[i]
        IN  /\ Has(p, "name") /\ Has(p, "departments")
            /\ \A j \in 1..Len(p.departments) :
                LET d == p.departments[j]
                IN  /\ Has(d, "type") /\ Has(d, "employees")
                    /\ \A k \in 1..Len(d.employees) : Has(d.employees[k], "name")

\* company.json before the first run
FirstDisk == IF outcomes = <<>> THEN disk0 ELSE outcomes[1].before

\* the run has a loaded document
Loaded == pc \in {"merge", "done"} \/ (pc = "aborted" /\ err = "KeyError")

UniqueProjectNames(data) ==
    \A i, j \in 1..Len(Projs(data)) :
        (/\ Has(data.projects[i], "name") /\ Has(data.projects[j], "name")
         /\ data.projects[i].name = data.projects[j].name) => i = j

UniqueEmployeeNames(data) ==
    \A i \in 1..Len(Projs(data)) :
        \A j \in 1..Len(Depts(data.projects[i])) :
            LET e == Emps(data.projects[i].departments[j])
            IN  \A k, l \in 1..Len(e) :
                    (Has(e[k], "name") /\ Has(e[l], "name") /\ e[k].name = e[l].name)
                        => k = l

UniqueDeptTypes(data) ==
    \A i \in 1..Len(Projs(data)) :
        LET d == Depts(data.projects[i])
        IN  \A j, l \in 1..Len(d) :
                (Has(d[j], "type") /\ Has(d[l], "type") /\ d[j].type = d[l].type)
                    => j = l

\* C1: a second run with the same scanned mapping on a well-formed store
\* leaves company.json as the first run wrote it.
C1_Idempotent ==
    (/\ run = 2 /\ pc = "done"
     /\ outcomes[1].pc = "done"
     /\ outcomes[1].before.state = "json"
     /\ WellFormed(outcomes[1].before.data))
        => disk = disk0

\* every project, department and employee of old is in new at the same
\* position with every own field unchanged; new has at most more projects,
\* more departments in a project and more employees in a department
PreservedDept(od, nd) ==
    /\ DOMAIN nd = DOMAIN od
    /\ Without(nd, "employees") = Without(od, "employees")
    /\ Len(Emps(od)) <= Len(Emps(nd))
    /\ \A k \in 1..Len(Emps(od)) : nd.employees[k] = od.employees[k]

PreservedProject(op, np) ==
    /\ DOMAIN np = DOMAIN op
    /\ Without(np, "departments") = Without(op, "departments")
    /\ Len(Depts(op)) <= Len(Depts(np))
    /\ \A j \in 1..Len(Depts(op)) :
           PreservedDept(op.departments[j], np.departments[j])

Preserved(old, new) ==
    /\ DOMAIN new = DOMAIN old
    /\ Without(new, "projects") = Without(old, "projects")
    /\ Len(Projs(old)) <= Len(Projs(new))
    /\ \A i \in 1..Len(Projs(old)) :
           PreservedProject(old.projects[i], new.projects[i])

\* C2: what was in company.json when a run started is, at every point of
\* the run, in the loaded document and in company.json, at the same position
\* and with every field unchanged; the run only appends.
C2_ExistingPreserved ==
    /\ (disk0.state = "json" /\ Loaded) => Preserved(disk0.data, company_data)
    /\ disk0.state = "json" => (disk.state = "json" /\ Preserved(disk0.data, disk.data))
    /\ disk0.state # "json" => disk = disk0

\* a run that added an employee to a department that had one, and met a
\* scanned employee whose name was already there
C2_Witness ==
    /\ pc = "done" /\ disk0.state = "json"
    /\ \E i \in 1..Len(Projs(disk0.data)) :
        \E j \in 1..Len(Depts(disk0.data.projects[i])) :
            LET od == disk0.data.projects[i].departments[j]
                nd == disk.data.projects[i].departments[j]
            IN  /\ Len(Emps(od)) >= 1
                /\ Len(Emps(nd)) > Len(Emps(od))
                /\ \E n \in 1..Len(projects_info) :
                    \E m \in 1..Len(projects_info[n].employees) :
                        /\ projects_info[n].employees[m].name = od.employees[1].name
                        /\ projects_info[n].employees[m].department = od.type
                        /\ projects_info[n].name = disk0.data.projects[i].name

\* C3: a run on a store whose project names are unique leaves them unique.
C3_UniqueProjectNames ==
    (pc = "done" /\ disk0.state = "json" /\ UniqueProjectNames(disk0.data))
        => UniqueProjectNames(disk.data)

\* C4: a run on a store whose employee names are unique within each
\* department leaves them unique within each department.
C4_UniqueEmployeeNames ==
    (pc = "done" /\ disk0.state = "json" /\ UniqueEmployeeNames(disk0.data))
        => UniqueEmployeeNames(disk.data)

\* the departments of project i of new that old does not have
CreatedDepts(old, new, i) ==
    {j \in 1..Len(Depts(new.projects[i])) :
        i > Len(Projs(old)) \/ j > Len(Depts(old.projects[i]))}

\* C5: if the department types were unique within each project before the
\* first run, they are unique in the loaded document and in company.json
\* ever after; and a department a run creates has a type that no department
\* before it in its project has.
C5_UniqueDeptTypes ==
    /\ (FirstDisk.state = "json" /\ UniqueDeptTypes(FirstDisk.data))
          => /\ disk.state = "json" /\ UniqueDeptTypes(disk.data)
             /\ Loaded => UniqueDeptTypes(company_data)
    /\ (disk0.state = "json" /\ Loaded)
          => \A i \in 1..Len(Projs(company_data)) :
                \A j \in CreatedDepts(disk0.data, company_data, i) :
                    \A l \in 1..(j - 1) :
                        LET d == company_data.projects[i].departments
                        IN  Has(d[l], "type") => d[l].type # d[j].type

\* the second run is done, on a store that had a department of the scanned
\* type in the scanned project, and the first run created another department
C5_Witness ==
    /\ run = 2 /\ pc = "done" /\ outcomes[1].pc = "done"
    /\ UniqueDeptTypes(FirstDisk.data)
    /\ \E i \in 1..Len(Projs(FirstDisk.data)) :
        LET od == Depts(FirstDisk.data.projects[i])
            nd == Depts(disk.data.projects[i])
        IN  /\ Len(od) >= 1 /\ Len(nd) > Len(od)
            /\ \E n \in 1..Len(projects_info) :
                \E m \in 1..Len(projects_info[n].employees) :
                    /\ projects_info[n].name = FirstDisk.data.projects[i].name
                    /\ projects_info[n].employees[m].department = od[1].type

\* C6: a run that scanned a project at least, on a document without
\* "projects", does not fail, and writes a document whose "projects" holds a
\* project for every scanned project.
C6_NoProjectsField ==
    (/\ pc \in {"done", "aborted"} /\ run = 1
     /\ disk0.state = "json" /\ ~Has(disk0.data, "projects")
     /\ projects_info # <<>>)
        => /\ pc = "done"
           /\ Has(disk.data, "projects")
           /\ Len(disk.data.projects) = Len(projects_info)

\* C7: a run writes company.json at most once, and only when every scanned
\* project has been merged; until then, and when the run aborts,
\* company.json is what it was when the run started.
C7_NoPartialWrite ==
    /\ writes <= 1
    /\ writes = 1 <=> pc = "done"
    /\ pc = "done" => /\ idx = Len(projects_info) + 1
                      /\ projects_info = scan_projects_folder(listing, Len(listing))
                      /\ disk = [state |-> "json", data |-> company_data]
    /\ pc # "done" => disk = disk0

\* a run that aborted inside the merge after it had changed the loaded
\* document
C7_Witness ==
    /\ pc = "aborted" /\ err = "KeyError"
    /\ idx >= 1
    /\ company_data # disk0.data

\* the employees of department j of project i of new that old does not have
CreatedEmps(old, new, i, j) ==
    {k \in 1..Len(Emps(new.projects[i].departments[j])) :
        \/ i > Len(Projs(old))
        \/ j > Len(Depts(old.projects[i]))
        \/ k > Len(Emps(old.projects[i].departments[j]))}

\* "EMP-" and the four decimal digits of n
FourDigits(n) ==
    <<"E", "M", "P", "-",
      (n \div 1000) % 10, (n \div 100) % 10, (n \div 10) % 10, n % 10>>

\* C8: the employee a run puts at position k of a department has the number
\* EMP-XXXX, XXXX being k - 1, the size of the list before the insertion.
C8_EmployeeNumbering ==
    (disk0.state = "json" /\ Loaded)
        => \A i \in 1..Len(Projs(company_data)) :
            \A j \in 1..Len(Depts(company_data.projects[i])) :
                \A k \in CreatedEmps(disk0.data, company_data, i, j) :
                    company_data.projects[i].departments[j].employees[k].employeeNumber
                        = FourDigits(k - 1)

\* a run that added two employees to a department that had one
C8_Witness ==
    /\ pc = "done" /\ disk0.state = "json"
    /\ \E i \in 1..Len(Projs(disk0.data)) :
        \E j \in 1..Len(Depts(disk0.data.projects[i])) :
            /\ Len(Emps(disk0.data.projects[i].departments[j])) >= 1
            /\ Len(Emps(disk.data.projects[i].departments[j]))
                  >= Len(Emps(disk0.data.projects[i].departments[j])) + 2

\* a project folder none of whose entries is a department folder with a
\* sheet in its people folder
NoEmployees(project_dir) ==
    \A c \in 1..Len(project_dir.children) :
        LET dept_dir == project_dir.children[c]
        IN  ~(/\ dept_dir.is_dir
              /\ dept_dir.name \in DEPT_MAPPING
              /\ Has(dept_dir, "people")
              /\ dept_dir.people # <<>>)

HasProjectNamed(data, name) ==
    \E i \in 1..Len(Projs(data)) :
        Has(data.projects[i], "name") /\ data.projects[i].name = name

\* C9: a project folder without employees is not in the scanned mapping,
\* and when main is done company.json has a project of its display name
\* only if it had one before or another folder with employees has that
\* display name.
C9_EmptyProjectDropped ==
    \A n \in 1..Len(listing) :
        (ScannedProject(listing[n]) /\ NoEmployees(listing[n]))
            => /\ pc \in {"load", "merge", "done"}
                    => \A m \in 1..Len(projects_info) :
                           projects_info[m].key # listing[n].name
               /\ (pc = "done"
                   /\ HasProjectNamed(disk.data, DisplayName(listing[n].name)))
                    => \/ /\ disk0.state = "json"
                          /\ HasProjectNamed(disk0.data, DisplayName(listing[n].name))
                       \/ \E m \in 1..Len(listing) :
                            /\ m # n
                            /\ ScannedProject(listing[m])
                            /\ ~NoEmployees(listing[m])
                            /\ DisplayName(listing[m].name)
                                   = DisplayName(listing[n].name)

\* main is done, the folder held a project folder with entries but without
\* employees next to one with employees, and company.json has no project of
\* the display name of the first
C9_Witness ==
    /\ pc = "done"
    /\ projects_info # <<>>
    /\ \E n \in 1..Len(listing) :
        /\ ScannedProject(listing[n]) /\ NoEmployees(listing[n])
        /\ listing[n].children # <<>>
        /\ ~HasProjectNamed(disk.data, DisplayName(listing[n].name))

\* C10: when a run on a well-formed store is done, company.json has, for
\* every scanned employee, a project of the scanned display name with a
\* department of the employee's code with an employee of that name.
C10_MergeComplete ==
    (pc = "done" /\ disk0.state = "json" /\ WellFormed(disk0.data))
        => \A n \in 1..Len(projects_info) :
            \A m \in 1..Len(projects_info[n].employees) :
                LET emp == projects_info[n].employees[m]
                IN  \E i \in 1..Len(disk.data.projects) :
                        /\ disk.data.projects[i].name = projects_info[n].name
                        /\ \E j \in 1..Len(disk.data.projects[i].departments) :
                            LET d == disk.data.projects[i].departments[j]
                            IN  /\ d.type = emp.department
                                /\ \E k \in 1..Len(d.employees) :
                                       d.employees[k].name = emp.name

\* a run is done on a store with two projects of the scanned display name,
\* and the scanned project has two employees in one department
C10_Witness ==
    /\ pc = "done" /\ run = 1 /\ disk0.state = "json" /\ WellFormed(disk0.data)
    /\ \E n \in 1..Len(projects_info) :
        /\ Cardinality({i \in 1..Len(disk0.data.projects) :
                            disk0.data.projects[i].name = projects_info[n].name}) >= 2
        /\ \E m, l \in 1..Len(projects_info[n].employees) :
               /\ m # l
               /\ projects_info[n].employees[m].department
                      = projects_info[n].employees[l].department

====
